---- MODULE Spec2Model ----
(***************************************************************************)
(* CRISAP 4.0.5 bootstrap: the SystemHealth diagnostics and self-healing   *)
(* engine of crisap_4_0_5.py, with the host it probes (directories under   *)
(* base_path, the .env secrets file, importable packages, the process      *)
(* environment, the free-space query) as the environment.                  *)
(***************************************************************************)
EXTENDS Integers, Sequences, FiniteSets, TLC

\* ------------------------------------------------------------------ bounds
\* How many entries of the code's hard-coded lists the model iterates over
\* (a prefix of each list, in the code's order).
NumDirs == 2
NumPkgs == 2
NumKeys == 2

\* --------------------------------------------------------- program constants
REQUIRED_PYTHON_VERSION == <<3, 7>>

min_space_mb == 500

BytesPerMB == 1024 * 1024

all_required_dirs ==
    <<"config", "data", "logs", "models", "exports", "cache", "temp">>

all_required_packages ==
    <<"numpy", "pandas", "streamlit", "openai", "supabase", "folium", "web3">>

all_required_keys ==
    <<"OPENAI_API_KEY", "SUPABASE_URL", "SUPABASE_KEY", "INFURA_PROJECT_ID">>

\* _fix_dependencies' list starts with the same two packages; "scipy" follows.
all_fix_packages ==
    <<"numpy", "pandas", "scipy", "scikit-learn", "xgboost", "joblib", "tensorflow">>

Prefix(s, n) == SubSeq(s, 1, IF n < Len(s) THEN n ELSE Len(s))

Range(s) == {s[i] : i \in 1..Len(s)}

required_dirs == Prefix(all_required_dirs, NumDirs)

required_packages == Prefix(all_required_packages, NumPkgs)

required_keys == Prefix(all_required_keys, NumKeys)

fix_packages == Prefix(all_fix_packages, NumPkgs)

Dirs == Range(required_dirs)

Pkgs == Range(required_packages)

Keys == Range(required_keys)

CheckNames ==
    {"python_version", "directories", "dependencies", "api_keys", "disk_space"}

\* --------------------------------------------------------------- environment
\* A path under base_path: absent, or present and os.access(path, W_OK) is
\* true / false.
DirStates == {"missing", "writable", "unwritable"}

\* What os.makedirs(dir_path, exist_ok=True) can do for a missing path: raise
\* (parent not writable, name taken by a dangling link, ...), or create the
\* directory with mode 0o777 & ~umask, which the process can or cannot write.
MkdirOutcomes == {"raise", "writable", "unwritable"}

\* os.chmod(dir_path, 0o755): raises (not the owner, read-only filesystem) or
\* gives the owner the write bit.
ChmodOutcomes == {"raise", "ok"}

\* subprocess.check_call([sys.executable, "-m", "pip", "install", p]): exit
\* status 0, CalledProcessError (non-zero exit), or the child cannot be
\* launched at all (OSError).
InstallOutcomes == {"ok", "nonzero", "oserror"}

\* open(env_path, "w") + f.write(template): written; open fails (no file is
\* left); open truncates/creates the file and the write fails (an empty file
\* is left).
TemplateOutcomes == {"ok", "open_fails", "write_fails"}

\* os.environ.get(key): None, "" or a non-empty value.
EnvValues == {"unset", "empty", "set"}

\* A line of the secrets file for a key: none, the template's placeholder
\* (KEY=your_..._here) or a value supplied by the operator (KEY=<secret>).
LineKinds == {"none", "placeholder", "real"}

Platforms == {"Linux", "Windows"}

\* sys.version_info as (major, minor, micro).
VersionInfos == {<<2, 7, 18>>, <<3, 6, 15>>, <<3, 7, 0>>, <<3, 12, 1>>}

\* The free-space query at base_path: it raises, or shutil.disk_usage reports
\* `free` bytes and os.statvfs the same space as f_frsize * f_bavail (values
\* around the 500 MB threshold).
DiskQueries ==
    {[raises |-> TRUE, free |-> 0, f_frsize |-> 0, f_bavail |-> 0]} \cup
    {[raises |-> FALSE, free |-> q[1] * q[2], f_frsize |-> q[1], f_bavail |-> q[2]] :
        q \in {<<4096, 0>>, <<4096, 127999>>, <<4096, 128000>>,
               <<1, 524287999>>, <<1, 524288001>>}}

VARIABLES
    platform,               \* platform.system()
    version_info,           \* sys.version_info
    environ,                \* os.environ restricted to the required keys
    disk,                   \* what the free-space query at base_path answers
    dirs,                   \* the required directories under base_path
    env_file,               \* <base_path>/.env
    importable,             \* packages __import__ finds
    health_check_results,   \* self.health_check_results
    last                    \* what the last operation did and returned

vars == <<platform, version_info, environ, disk, dirs, env_file, importable,
          health_check_results, last>>

\* ----------------------------------------------------------- secrets file
NoFile == [exists |-> FALSE, readable |-> FALSE, lines |-> [k \in Keys |-> "none"]]

EmptyFile == [exists |-> TRUE, readable |-> TRUE, lines |-> [k \in Keys |-> "none"]]

\* The text _create_env_template writes: a placeholder assignment per key.
TemplateFile ==
    [exists |-> TRUE, readable |-> TRUE, lines |-> [k \in Keys |-> "placeholder"]]

\* f"{key}=" in env_content: a substring test, true of a placeholder line as
\* of a real one.
ContainsAssignment(content, key) == content[key] \in {"placeholder", "real"}

\* ------------------------------------------------------------------ report
NoReport == [c \in {} |-> FALSE]

ReportNames == CheckNames \cup {"overall"}

all(bs) == \A i \in 1..Len(bs) : bs[i]

\* ------------------------------------------------------ _check_python_version
\* Python's tuple order: lexicographic, a proper prefix is the smaller tuple.
RECURSIVE TupleLess(_, _)
TupleLess(a, b) ==
    IF b = <<>> THEN FALSE
    ELSE IF a = <<>> THEN TRUE
    ELSE IF Head(a) < Head(b) THEN TRUE
    ELSE IF Head(a) > Head(b) THEN FALSE
    ELSE TupleLess(Tail(a), Tail(b))

_check_python_version(current_version) ==
    ~TupleLess(current_version, REQUIRED_PYTHON_VERSION)

\* --------------------------------------------------------- _check_directories
\* One iteration of the loop over required_dirs. acc carries the filesystem,
\* all_ok, the directories os.makedirs was called for and those it created.
\* mk gives os.makedirs's outcome for each missing directory.
check_dir_step_no_access_check(acc, d, mk) ==
    LET attempt == acc.fs[d] = "missing"
        raised == attempt /\ mk[d] = "raise"
        fs1 == IF attempt /\ ~raised THEN [acc.fs EXCEPT ![d] = mk[d]] ELSE acc.fs
    IN  [fs |-> fs1,
         all_ok |-> IF raised THEN FALSE
                    ELSE IF ~attempt /\ fs1[d] # "writable" THEN FALSE
                    ELSE acc.all_ok,
         calls |-> IF attempt THEN acc.calls \cup {d} ELSE acc.calls,
         created |-> IF attempt /\ ~raised THEN acc.created \cup {d} ELSE acc.created]

check_dir_step(acc, d, mk) ==
    LET attempt == acc.fs[d] = "missing"                 \* not os.path.exists
        raised == attempt /\ mk[d] = "raise"             \* except: ... continue
        fs1 == IF attempt /\ ~raised THEN [acc.fs EXCEPT ![d] = mk[d]] ELSE acc.fs
    IN  [fs |-> fs1,
         all_ok |-> IF raised THEN FALSE
                    ELSE IF fs1[d] # "writable" THEN FALSE   \* not os.access(W_OK)
                    ELSE acc.all_ok,
         calls |-> IF attempt THEN acc.calls \cup {d} ELSE acc.calls,
         created |-> IF attempt /\ ~raised THEN acc.created \cup {d} ELSE acc.created]

RECURSIVE check_dirs_loop(_, _, _)
check_dirs_loop(i, acc, mk) ==
    IF i > Len(required_dirs) THEN acc
    ELSE check_dirs_loop(i + 1, check_dir_step(acc, required_dirs[i], mk), mk)

\* Returns [fs, all_ok, calls, created].
_check_directories(fs, mk) ==
    check_dirs_loop(1, [fs |-> fs, all_ok |-> TRUE, calls |-> {}, created |-> {}], mk)

\* -------------------------------------------------------- _check_dependencies
\* First loop: __import__ each required package, collect the missing ones.
RECURSIVE missing_packages(_, _)
missing_packages(i, imp) ==
    IF i > Len(required_packages) THEN <<>>
    ELSE (IF required_packages[i] \in imp THEN <<>> ELSE <<required_packages[i]>>)
         \o missing_packages(i + 1, imp)

\* One iteration of the install loop. acc carries importable, all_ok, the
\* packages an install was attempted for, the packages whose failure was
\* logged, and whether an exception other than CalledProcessError escaped.
install_step_abort_on_failure(acc, p, inst) ==
    IF acc.raised \/ acc.failures # <<>> THEN acc
    ELSE IF inst[p] = "ok"
         THEN [acc EXCEPT !.imp = @ \cup {p}, !.attempts = Append(@, p)]
    ELSE IF inst[p] = "nonzero"
         THEN [acc EXCEPT !.all_ok = FALSE, !.attempts = Append(@, p),
                          !.failures = Append(@, p)]
    ELSE [acc EXCEPT !.raised = TRUE, !.attempts = Append(@, p)]

install_step(acc, p, inst) ==
    IF acc.raised THEN acc                   \* the exception left the function
    ELSE IF inst[p] = "ok"
         THEN [acc EXCEPT !.imp = @ \cup {p}, !.attempts = Append(@, p)]
    ELSE IF inst[p] = "nonzero"              \* except CalledProcessError
         THEN [acc EXCEPT !.all_ok = FALSE, !.attempts = Append(@, p),
                          !.failures = Append(@, p)]
    ELSE [acc EXCEPT !.raised = TRUE, !.attempts = Append(@, p)]   \* OSError

RECURSIVE install_loop(_, _, _, _)
install_loop(i, missing, acc, inst) ==
    IF i > Len(missing) THEN acc
    ELSE install_loop(i + 1, missing, install_step(acc, missing[i], inst), inst)

\* Returns [imp, all_ok, attempts, failures, raised].
_check_dependencies(imp, inst) ==
    LET missing == missing_packages(1, imp)
    IN  install_loop(1, missing,
                     [imp |-> imp, all_ok |-> missing = <<>>, attempts |-> <<>>,
                      failures |-> <<>>, raised |-> FALSE], inst)

\* ------------------------------------------------------- _create_env_template
\* The file at env_path after open(env_path, "w") / f.write(template) with
\* outcome tw; every exception is caught and logged.
_create_env_template(file, tw) ==
    IF tw = "ok" THEN TemplateFile
    ELSE IF tw = "write_fails" THEN EmptyFile
    ELSE file

\* ------------------------------------------------------------ _check_api_keys
\* Keys whose os.environ.get(key) is falsy, in the list's order.
RECURSIVE missing_in_environ(_, _)
missing_in_environ(i, env) ==
    IF i > Len(required_keys) THEN <<>>
    ELSE (IF env[required_keys[i]] = "set" THEN <<>> ELSE <<required_keys[i]>>)
         \o missing_in_environ(i + 1, env)

\* for key in missing_keys[:]: if f"{key}=" in env_content: remove(key)
RECURSIVE remove_found_in_file(_, _)
remove_found_in_file(missing, content) ==
    IF missing = <<>> THEN <<>>
    ELSE (IF ContainsAssignment(content, Head(missing)) THEN <<>> ELSE <<Head(missing)>>)
         \o remove_found_in_file(Tail(missing), content)

api_keys_overwrites_existing(env, file, tw) ==
    LET missing0 == missing_in_environ(1, env)
        read == missing0 # <<>> /\ file.exists
        raised == read /\ ~file.readable
        missing1 == IF read /\ ~raised THEN remove_found_in_file(missing0, file.lines)
                    ELSE missing0
        write == ~raised /\ missing1 # <<>>
    IN  [raised |-> raised,
         all_ok |-> ~raised /\ missing1 = <<>>,
         file |-> IF write THEN _create_env_template(file, tw) ELSE file,
         template |-> IF write THEN tw ELSE "none",
         missing |-> missing1]

\* Returns [raised, all_ok, file, template (the write's outcome, "none" when
\* no write was attempted), missing (the keys still missing)].
_check_api_keys(env, file, tw) ==
    LET missing0 == missing_in_environ(1, env)
        read == missing0 # <<>> /\ file.exists          \* os.path.exists(env_path)
        raised == read /\ ~file.readable                \* open(env_path, "r") raises
        missing1 == IF read /\ ~raised THEN remove_found_in_file(missing0, file.lines)
                    ELSE missing0
        write == ~raised /\ missing1 # <<>> /\ ~file.exists
    IN  [raised |-> raised,
         all_ok |-> ~raised /\ missing1 = <<>>,
         file |-> IF write THEN _create_env_template(file, tw) ELSE file,
         template |-> IF write THEN tw ELSE "none",
         missing |-> missing1]

\* ---------------------------------------------------------- _check_disk_space
\* free_space_mb = free_space / (1024 * 1024) is an exact float division (a
\* power of two, free_space < 2^53), so free_space_mb < min_space_mb holds
\* exactly when free_space < min_space_mb * 1024 * 1024. A raised query is
\* caught and gives False.
disk_space_strict(plat, q) ==
    IF q.raises THEN FALSE
    ELSE LET free_space == IF plat = "Windows" THEN q.free
                           ELSE q.f_frsize * q.f_bavail
         IN  ~(free_space <= min_space_mb * BytesPerMB)

_check_disk_space(plat, q) ==
    IF q.raises THEN FALSE                                  \* except Exception
    ELSE LET free_space == IF plat = "Windows" THEN q.free  \* disk_usage().free
                           ELSE q.f_frsize * q.f_bavail     \* os.statvfs
         IN  ~(free_space < min_space_mb * BytesPerMB)

\* ----------------------------------------------------------- _fix_directories
\* One iteration of the loop over required_dirs: create a missing directory,
\* elif it is not writable chmod it to 0o755 (not attempted on Windows).
\* mk, ch give os.makedirs's and os.chmod's outcomes. Neither branch looks at
\* the directory again afterwards.
fix_dir_step(acc, d, mk, ch, plat) ==
    IF acc.fs[d] = "missing"                                   \* not os.path.exists
    THEN (IF mk[d] = "raise"
          THEN [acc EXCEPT !.all_fixed = FALSE]
          ELSE [acc EXCEPT !.fs = [@ EXCEPT ![d] = mk[d]],
                           !.created = @ \cup {d}])
    ELSE IF acc.fs[d] = "unwritable"                           \* elif not os.access
         THEN (IF plat # "Windows"
               THEN (IF ch[d] = "raise"
                     THEN [acc EXCEPT !.all_fixed = FALSE, !.perm = @ \cup {d}]
                     ELSE [acc EXCEPT !.fs = [@ EXCEPT ![d] = "writable"],
                                      !.perm = @ \cup {d}])
               ELSE [acc EXCEPT !.all_fixed = FALSE, !.perm = @ \cup {d}])
    ELSE acc

RECURSIVE fix_dirs_loop(_, _, _, _, _)
fix_dirs_loop(i, acc, mk, ch, plat) ==
    IF i > Len(required_dirs) THEN acc
    ELSE fix_dirs_loop(i + 1, fix_dir_step(acc, required_dirs[i], mk, ch, plat),
                       mk, ch, plat)

\* Returns [fs, all_fixed, created (the directories it created), perm (the
\* directories it found unwritable)].
_fix_directories(fs, mk, ch, plat) ==
    fix_dirs_loop(1, [fs |-> fs, all_fixed |-> TRUE, created |-> {}, perm |-> {}],
                  mk, ch, plat)

\* ---------------------------------------------------------- _fix_dependencies
\* The source ends inside this function, after its package list. Its body is
\* taken from the design: an installation is attempted for the packages of
\* the remediation list, and the fix succeeds when none of them failed. fd
\* gives each installation's outcome.
_fix_dependencies(imp, fd) ==
    [imp |-> imp \cup {p \in Range(fix_packages) : fd[p] = "ok"},
     fixed |-> \A p \in Range(fix_packages) : fd[p] = "ok",
     installs |-> Range(fix_packages)]

\* ------------------------------------------------------- run_self_diagnostics
NotReached == [raised |-> FALSE, all_ok |-> FALSE, template |-> "none"]

report_overall_skips_disk(py, d, dep, api, dsk) ==
    [c \in ReportNames |->
        CASE c = "python_version" -> py
          [] c = "directories" -> d
          [] c = "dependencies" -> dep
          [] c = "api_keys" -> api
          [] c = "disk_space" -> dsk
          [] OTHER -> all(<<py, d, dep, api>>)]

\* The dict stored at lines 95-102.
make_report(py, d, dep, api, dsk) ==
    [c \in ReportNames |->
        CASE c = "python_version" -> py
          [] c = "directories" -> d
          [] c = "dependencies" -> dep
          [] c = "api_keys" -> api
          [] c = "disk_space" -> dsk
          [] OTHER -> all(<<py, d, dep, api, dsk>>)]

\* The five checks in the code's order. An exception raised by a check leaves
\* run_self_diagnostics at once: the later checks do not run and
\* health_check_results is not assigned. Returns the environment afterwards,
\* what each check that ran returned, and the report (NoReport when raised).
run_self_diagnostics(ver, plat, env, fs, file, imp, mk, inst, tw, q) ==
    LET py == _check_python_version(ver)
        dr == _check_directories(fs, mk)
        dp == _check_dependencies(imp, inst)
        ak == IF dp.raised THEN [NotReached EXCEPT !.raised = TRUE]
              ELSE _check_api_keys(env, file, tw)
        raised == dp.raised \/ ak.raised
        disk_ok == ~raised /\ _check_disk_space(plat, q)
    IN  [raised |-> raised,
         fs |-> dr.fs,
         imp |-> dp.imp,
         file |-> IF dp.raised THEN file ELSE ak.file,
         reached |-> IF dp.raised THEN {"python_version", "directories"}
                     ELSE IF ak.raised
                          THEN {"python_version", "directories", "dependencies"}
                     ELSE CheckNames,
         directories |-> dr.all_ok,
         dependencies |-> ~dp.raised /\ dp.all_ok,
         mkdir_calls |-> dr.calls,
         created |-> dr.created,
         attempts |-> dp.attempts,
         failures |-> dp.failures,
         template |-> IF dp.raised THEN "none" ELSE ak.template,
         disk |-> disk_ok,
         report |-> IF raised THEN NoReport
                    ELSE make_report(py, dr.all_ok, dp.all_ok, ak.all_ok, disk_ok)]

\* ------------------------------------------------------- perform_self_healing
\* if not self.health_check_results: self.run_self_diagnostics()
probe_always(stored) == TRUE

needs_probe(stored) == stored = NoReport

\* Lines 286-315, on the stored report: which fixers run, what they return,
\* the fixed_issues / failed_fixes lists and the returned value.
heal_also_on_failing_disk(report, fs, imp, plat, mk, ch, fd) ==
    LET run_dirs == ~report["directories"] \/ ~report["disk_space"]
        fdirs == IF run_dirs THEN _fix_directories(fs, mk, ch, plat)
                 ELSE [fs |-> fs, all_fixed |-> TRUE, created |-> {}, perm |-> {}]
        run_deps == ~report["dependencies"]
        fdeps == IF run_deps THEN _fix_dependencies(imp, fd)
                 ELSE [imp |-> imp, fixed |-> TRUE, installs |-> {}]
        fixed_issues == (IF run_dirs /\ fdirs.all_fixed THEN <<"directories">> ELSE <<>>)
                     \o (IF run_deps /\ fdeps.fixed THEN <<"dependencies">> ELSE <<>>)
        failed_fixes == (IF run_dirs /\ ~fdirs.all_fixed THEN <<"directories">> ELSE <<>>)
                     \o (IF run_deps /\ ~fdeps.fixed THEN <<"dependencies">> ELSE <<>>)
    IN  [fs |-> fdirs.fs, imp |-> fdeps.imp,
         attempted |-> (IF run_dirs THEN {"directories"} ELSE {})
                       \cup (IF run_deps THEN {"dependencies"} ELSE {}),
         dirs_fixed |-> run_dirs /\ fdirs.all_fixed,
         deps_fixed |-> run_deps /\ fdeps.fixed,
         fix_created |-> fdirs.created,
         fix_perm |-> fdirs.perm,
         fix_installs |-> fdeps.installs,
         fixed_issues |-> fixed_issues,
         failed_fixes |-> failed_fixes,
         ret |-> Len(failed_fixes) = 0]

perform_self_healing(report, fs, imp, plat, mk, ch, fd) ==
    LET run_dirs == ~report["directories"]             \* .get("directories", True)
        fdirs == IF run_dirs THEN _fix_directories(fs, mk, ch, plat)
                 ELSE [fs |-> fs, all_fixed |-> TRUE, created |-> {}, perm |-> {}]
        run_deps == ~report["dependencies"]            \* .get("dependencies", True)
        fdeps == IF run_deps THEN _fix_dependencies(imp, fd)
                 ELSE [imp |-> imp, fixed |-> TRUE, installs |-> {}]
        fixed_issues == (IF run_dirs /\ fdirs.all_fixed THEN <<"directories">> ELSE <<>>)
                     \o (IF run_deps /\ fdeps.fixed THEN <<"dependencies">> ELSE <<>>)
        failed_fixes == (IF run_dirs /\ ~fdirs.all_fixed THEN <<"directories">> ELSE <<>>)
                     \o (IF run_deps /\ ~fdeps.fixed THEN <<"dependencies">> ELSE <<>>)
    IN  [fs |-> fdirs.fs, imp |-> fdeps.imp,
         attempted |-> (IF run_dirs THEN {"directories"} ELSE {})
                       \cup (IF run_deps THEN {"dependencies"} ELSE {}),
         dirs_fixed |-> run_dirs /\ fdirs.all_fixed,
         deps_fixed |-> run_deps /\ fdeps.fixed,
         fix_created |-> fdirs.created,
         fix_perm |-> fdirs.perm,
         fix_installs |-> fdeps.installs,
         fixed_issues |-> fixed_issues,
         failed_fixes |-> failed_fixes,
         ret |-> Len(failed_fixes) = 0]

\* ----------------------------------------------------------- inputs per call
MissingDirs(fs) == {d \in Dirs : fs[d] = "missing"}

UnwritableDirs(fs) == {d \in Dirs : fs[d] = "unwritable"}

\* Whether _check_api_keys would call _create_env_template.
WritesTemplate(env, file) == _check_api_keys(env, file, "ok").template # "none"

\* ----------------------------------------------------------------- the state
Blank ==
    [op |-> "init", raised |-> FALSE, probe |-> FALSE, reached |-> {},
     directories |-> FALSE, dependencies |-> FALSE,
     mk |-> <<>>, inst |-> <<>>,
     mkdir_calls |-> {}, created |-> {}, attempts |-> <<>>, failures |-> <<>>,
     template |-> "none", disk |-> FALSE,
     returned |-> NoReport,
     attempted |-> {}, fixed_issues |-> <<>>, failed_fixes |-> <<>>,
     dirs_fixed |-> FALSE, deps_fixed |-> FALSE,
     fix_created |-> {}, fix_perm |-> {}, fix_installs |-> {},
     ret |-> FALSE]

\* What a probe run r, with os.makedirs outcomes mk and installer outcomes
\* inst, leaves in `last`.
ProbeTrace(r, mk, inst) ==
    [Blank EXCEPT !.raised = r.raised, !.probe = TRUE, !.reached = r.reached,
                  !.mk = mk, !.inst = inst,
                  !.directories = r.directories, !.dependencies = r.dependencies,
                  !.mkdir_calls = r.mkdir_calls, !.created = r.created,
                  !.attempts = r.attempts, !.failures = r.failures,
                  !.template = r.template,
                  !.disk = r.disk,
                  !.returned = r.report]

host == <<platform, version_info, environ, disk>>

\* ------------------------------------------------------------- initial hosts
\* SystemHealth() has just been constructed: __init__ sets
\* health_check_results = {}. The host it finds is one of the following.
AllSet == [k \in Keys |-> "set"]

AllWritable == [d \in Dirs |-> "writable"]

AllMissing == [d \in Dirs |-> "missing"]

GoodVersion == <<3, 12, 1>>

EnoughDisk ==
    [raises |-> FALSE, free |-> 4096 * 128000, f_frsize |-> 4096, f_bavail |-> 128000]

LowDisk ==
    [raises |-> FALSE, free |-> 4096 * 127999, f_frsize |-> 4096, f_bavail |-> 127999]

Constructed ==
    /\ health_check_results = NoReport
    /\ last = Blank

\* A host with one defect of each kind at most: the first directory missing,
\* the first package missing, the first key unset, an old interpreter, a
\* nearly full disk.
Init ==
    /\ platform \in Platforms
    /\ version_info \in {<<3, 6, 15>>, GoodVersion}
    /\ environ \in {AllSet, [AllSet EXCEPT ![required_keys[1]] = "unset"]}
    /\ disk \in {LowDisk, EnoughDisk}
    /\ dirs = [AllWritable EXCEPT ![required_dirs[1]] = "missing"]
    /\ env_file = NoFile
    /\ importable \in {Pkgs, Pkgs \ {required_packages[1]}}
    /\ Constructed

\* An empty base path; everything else is in order.
InitDirs ==
    /\ platform \in Platforms
    /\ version_info = GoodVersion
    /\ environ = AllSet
    /\ disk = EnoughDisk
    /\ dirs = AllMissing
    /\ env_file = NoFile
    /\ importable = Pkgs
    /\ Constructed

\* Any set of packages installed; everything else is in order.
InitDeps ==
    /\ platform \in Platforms
    /\ version_info = GoodVersion
    /\ environ = AllSet
    /\ disk = EnoughDisk
    /\ dirs = AllWritable
    /\ env_file = NoFile
    /\ importable \in SUBSET Pkgs
    /\ Constructed

\* Any process environment, no secrets file; everything else is in order.
InitKeys ==
    /\ platform = "Linux"
    /\ version_info = GoodVersion
    /\ environ \in [Keys -> EnvValues]
    /\ disk = EnoughDisk
    /\ dirs = AllWritable
    /\ env_file = NoFile
    /\ importable = Pkgs
    /\ Constructed

\* Any platform, interpreter and disk; everything else is in order.
InitHost ==
    /\ platform \in Platforms
    /\ version_info \in VersionInfos
    /\ environ = AllSet
    /\ disk \in DiskQueries
    /\ dirs = AllWritable
    /\ env_file = NoFile
    /\ importable = Pkgs
    /\ Constructed

\* health.run_self_diagnostics()
RunSelfDiagnostics ==
    \E mk \in [MissingDirs(dirs) -> MkdirOutcomes],
       inst \in [Pkgs \ importable -> InstallOutcomes],
       tw \in (IF WritesTemplate(environ, env_file) THEN TemplateOutcomes ELSE {"none"}) :
        \E r \in {run_self_diagnostics(version_info, platform, environ, dirs,
                                       env_file, importable, mk, inst, tw, disk)} :
            /\ dirs' = r.fs
            /\ importable' = r.imp
            /\ env_file' = r.file
            /\ health_check_results' =
                  IF r.raised THEN health_check_results ELSE r.report
            /\ last' = [ProbeTrace(r, mk, inst) EXCEPT !.op = "diag"]
            /\ UNCHANGED host

\* What perform_self_healing starts from when it does not run the probe.
NoProbe(stored, fs, file, imp) ==
    [raised |-> FALSE, fs |-> fs, imp |-> imp, file |-> file, report |-> stored]

\* health.perform_self_healing()
PerformSelfHealing ==
    \E probe \in {needs_probe(health_check_results)} :
    \E mk \in [(IF probe THEN MissingDirs(dirs) ELSE {}) -> MkdirOutcomes],
       inst \in [(IF probe THEN Pkgs \ importable ELSE {}) -> InstallOutcomes],
       tw \in (IF probe /\ WritesTemplate(environ, env_file)
               THEN TemplateOutcomes ELSE {"none"}) :
    \E r \in {IF probe
              THEN run_self_diagnostics(version_info, platform, environ, dirs,
                                        env_file, importable, mk, inst, tw, disk)
              ELSE NoProbe(health_check_results, dirs, env_file, importable)} :
        IF r.raised
        THEN /\ dirs' = r.fs
             /\ importable' = r.imp
             /\ env_file' = r.file
             /\ last' = [ProbeTrace(r, mk, inst) EXCEPT !.op = "heal"]
             /\ UNCHANGED <<host, health_check_results>>
        ELSE
        \E mk2 \in [(IF r.report["directories"] THEN {} ELSE MissingDirs(r.fs))
                        -> MkdirOutcomes],
           ch \in [(IF r.report["directories"] \/ platform = "Windows" THEN {}
                    ELSE UnwritableDirs(r.fs)) -> ChmodOutcomes],
           fd \in [(IF r.report["dependencies"] THEN {} ELSE Range(fix_packages))
                        -> {"ok", "nonzero"}] :
        \E h \in {perform_self_healing(r.report, r.fs, r.imp, platform, mk2, ch, fd)} :
            /\ dirs' = h.fs
            /\ importable' = h.imp
            /\ env_file' = r.file
            /\ health_check_results' = r.report
            /\ last' = [(IF probe THEN ProbeTrace(r, mk, inst) ELSE Blank)
                            EXCEPT !.op = "heal",
                                   !.attempted = h.attempted,
                                   !.fixed_issues = h.fixed_issues,
                                   !.failed_fixes = h.failed_fixes,
                                   !.dirs_fixed = h.dirs_fixed,
                                   !.deps_fixed = h.deps_fixed,
                                   !.fix_created = h.fix_created,
                                   !.fix_perm = h.fix_perm,
                                   !.fix_installs = h.fix_installs,
                                   !.ret = h.ret]
            /\ UNCHANGED host

\* ------------------------------------------------- the host changes by itself
\* Someone removes a required directory.
RemoveDirectory ==
    \E d \in Dirs :
        /\ dirs[d] # "missing"
        /\ dirs' = [dirs EXCEPT ![d] = "missing"]
        /\ last' = [Blank EXCEPT !.op = "external"]
        /\ UNCHANGED <<host, env_file, importable, health_check_results>>

\* Someone takes the write permission of a required directory away.
ProtectDirectory ==
    \E d \in Dirs :
        /\ dirs[d] = "writable"
        /\ dirs' = [dirs EXCEPT ![d] = "unwritable"]
        /\ last' = [Blank EXCEPT !.op = "external"]
        /\ UNCHANGED <<host, env_file, importable, health_check_results>>

\* The operator puts a real value for a key into the secrets file (creating
\* the file when there is none).
OperatorSuppliesKey ==
    \E k \in Keys :
        /\ env_file.lines[k] # "real"
        /\ env_file.exists => env_file.readable
        /\ env_file' = [exists |-> TRUE, readable |-> TRUE,
                        lines |-> [env_file.lines EXCEPT ![k] = "real"]]
        /\ last' = [Blank EXCEPT !.op = "operator"]
        /\ UNCHANGED <<host, dirs, importable, health_check_results>>

\* The secrets file loses its read permission (chmod 000, another owner).
ProtectSecretsFile ==
    /\ env_file.exists
    /\ env_file.readable
    /\ env_file' = [env_file EXCEPT !.readable = FALSE]
    /\ last' = [Blank EXCEPT !.op = "external"]
    /\ UNCHANGED <<host, dirs, importable, health_check_results>>

\* A package is uninstalled.
UninstallPackage ==
    \E p \in importable :
        /\ importable' = importable \ {p}
        /\ last' = [Blank EXCEPT !.op = "external"]
        /\ UNCHANGED <<host, dirs, env_file, health_check_results>>

\* The disk fills up or is freed, or the query starts or stops failing.
DiskChanges ==
    \E q \in DiskQueries \ {disk} :
        /\ disk' = q
        /\ last' = [Blank EXCEPT !.op = "external"]
        /\ UNCHANGED <<platform, version_info, environ, dirs, env_file,
                       importable, health_check_results>>

\* ------------------------------------------------------------ specifications
\* The engine on a host that only its own operations change.
Next == RunSelfDiagnostics \/ PerformSelfHealing

Spec == Init /\ [][Next]_vars

\* The directories: the engine, and directories removed or protected behind
\* its back.
NextDirs ==
    RunSelfDiagnostics \/ PerformSelfHealing \/ RemoveDirectory \/ ProtectDirectory

SpecDirs == InitDirs /\ [][NextDirs]_vars

\* The packages: the engine, and packages uninstalled behind its back.
NextDeps == RunSelfDiagnostics \/ PerformSelfHealing \/ UninstallPackage

SpecDeps == InitDeps /\ [][NextDeps]_vars

\* The API keys: the engine, and the operator editing the secrets file.
NextKeys ==
    RunSelfDiagnostics \/ PerformSelfHealing \/ OperatorSuppliesKey
        \/ ProtectSecretsFile

SpecKeys == InitKeys /\ [][NextKeys]_vars

\* The disk: the engine, and the free space changing.
NextHost == RunSelfDiagnostics \/ PerformSelfHealing \/ DiskChanges

SpecHost == InitHost /\ [][NextHost]_vars

\* ===================================================================== claims
Remediable == {"directories", "dependencies"}

NoKeyInEnviron == \A k \in Keys : environ[k] # "set"

HoldsTemplate(f) == f.exists /\ \A k \in Keys : f.lines[k] = "placeholder"

Count(seq, x) == Cardinality({i \in 1..Len(seq) : seq[i] = x})

IsFullReport(r) == DOMAIN r = ReportNames

\* C1: after every call of run_self_diagnostics the stored report is the
\* returned one, it holds what the five checks returned, and its overall entry
\* is true exactly when all five check entries are true.
C1_OverallIsAnd ==
    /\ DOMAIN health_check_results # {} =>
          /\ IsFullReport(health_check_results)
          /\ health_check_results["overall"]
                = (\A c \in CheckNames : health_check_results[c])
    /\ (last.op = "diag" /\ ~last.raised) =>
          /\ last.returned = health_check_results
          /\ last.returned["directories"] = last.directories
          /\ last.returned["dependencies"] = last.dependencies
          /\ last.returned["disk_space"] = last.disk
          /\ last.returned["python_version"] = _check_python_version(version_info)

\* A run whose only failing check is the disk space, so overall is false.
C1_Witness ==
    /\ last.op = "diag"
    /\ ~last.raised
    /\ ~last.returned["disk_space"]
    /\ \A c \in CheckNames \ {"disk_space"} : last.returned[c]
    /\ ~health_check_results["overall"]

\* C2 (as claimed): while some required key is absent from the environment and
\* has no operator-supplied value in the secrets file, every report returned by
\* run_self_diagnostics has api_keys = false.
C2_MissingKeysKeepFailing ==
    (/\ last.probe
     /\ ~last.raised
     /\ \E k \in Keys : environ[k] # "set" /\ env_file.lines[k] # "real")
        => ~last.returned["api_keys"]

\* C3 (as claimed): when perform_self_healing records directories as fixed,
\* every required directory exists and is writable, so that a directory check
\* run next would pass.
C3_FixedMeansCheckPasses ==
    (last.op = "heal" /\ "directories" \in Range(last.fixed_issues))
        => \A d \in Dirs : dirs[d] = "writable"

\* C4 (as claimed): every call of run_self_diagnostics returns a full report;
\* no failure of the filesystem or of a subprocess leaves it as an exception.
C4_AlwaysReturnsReport ==
    last.op = "diag" => (~last.raised /\ IsFullReport(last.returned))

\* C5: perform_self_healing runs a fixer for exactly the categories among
\* directories and dependencies that are false in the stored report, and
\* returns true exactly when every fixer it ran returned true. With
\* dependencies = true the call installs no package; when only directories is
\* attempted and the missing directories were created it returns true; when
\* neither category is false it does nothing and returns true.
C5_HealingPolicy ==
    (last.op = "heal" /\ ~last.raised) =>
        /\ last.attempted = {c \in Remediable : ~health_check_results[c]}
        /\ last.ret = (/\ "directories" \in last.attempted => last.dirs_fixed
                       /\ "dependencies" \in last.attempted => last.deps_fixed)
        /\ health_check_results["dependencies"] =>
              (last.fix_installs = {} /\ last.attempts = <<>>)
        /\ (/\ last.attempted = {"directories"}
            /\ last.fix_perm = {}
            /\ MissingDirs(dirs) = {}) => last.ret
        /\ last.attempted = {} =>
              /\ last.ret
              /\ last.fix_created = {}
              /\ last.fix_perm = {}
              /\ last.fix_installs = {}

\* directories = false, dependencies = true and a non-remediable check failing:
\* the missing directory is created, nothing is installed, true is returned.
C5_Witness ==
    /\ last.op = "heal"
    /\ ~last.raised
    /\ last.attempted = {"directories"}
    /\ last.fix_created # {}
    /\ last.fix_installs = {}
    /\ last.ret
    /\ health_check_results["dependencies"]
    /\ ~health_check_results["disk_space"]

\* A run of the probe, alone or at the start of perform_self_healing.
ProbeStep == last'.probe

ExistingFileUntouched ==
    (env_file.exists /\ last'.op \in {"diag", "heal"}) => env_file' = env_file

\* C6 (as claimed): with no required key in the environment and no secrets
\* file, one run leaves a template with a placeholder for every required key
\* and reports api_keys = false; and no run changes an existing secrets file.
C6_Original ==
    [][/\ (ProbeStep /\ NoKeyInEnviron /\ ~env_file.exists) =>
              /\ HoldsTemplate(env_file')
              /\ ~last'.raised
              /\ ~last'.returned["api_keys"]
       /\ ExistingFileUntouched]_vars

\* C6 (amended): with no required key in the environment and no secrets file,
\* the API-key check attempts the template write; when the write succeeds the
\* file holds a placeholder for every required key; every report returned has
\* api_keys = false; and no run changes an existing secrets file.
C6_TemplateScaffold ==
    [][/\ (/\ ProbeStep
           /\ NoKeyInEnviron
           /\ ~env_file.exists
           /\ "api_keys" \in last'.reached) =>
              /\ last'.template # "none"
              /\ last'.template = "ok" => HoldsTemplate(env_file')
              /\ last'.template = "open_fails" => ~env_file'.exists
              /\ ~last'.raised => ~last'.returned["api_keys"]
       /\ ExistingFileUntouched]_vars

\* The template has just been written on a host with no key set.
C6_Witness ==
    /\ last.op = "diag"
    /\ NoKeyInEnviron
    /\ last.template = "ok"
    /\ HoldsTemplate(env_file)
    /\ ~last.raised
    /\ ~last.returned["api_keys"]

DiagStep == last'.op = "diag"

\* The check passes iff every directory exists and is writable on return.
DirCheckIff ==
    DiagStep => (last'.directories <=> \A d \in Dirs : dirs'[d] = "writable")

\* os.makedirs is called for every directory missing at entry, whatever
\* happened to the others, and each one whose creation did not raise exists.
DirCheckContinues ==
    DiagStep =>
        /\ last'.mkdir_calls = MissingDirs(dirs)
        /\ last'.created = {d \in MissingDirs(dirs) : last'.mk[d] # "raise"}
        /\ \A d \in last'.created : dirs'[d] # "missing"

\* A run right after a passing run passes and leaves the directories alone.
DirCheckIdempotent ==
    (last.op = "diag" /\ last.directories /\ DiagStep)
        => (last'.directories /\ dirs' = dirs)

\* C7 (as claimed): the directory check passes iff all required directories
\* exist and are writable on return; from an empty base path, when no creation
\* fails, one run creates them all and reports true; a second run reports the
\* same and changes nothing; a failure for one directory does not stop the
\* others from being checked and created.
C7_Original ==
    [][/\ DirCheckIff
       /\ DirCheckContinues
       /\ DirCheckIdempotent
       /\ (/\ DiagStep
           /\ dirs = AllMissing
           /\ \A d \in Dirs : last'.mk[d] # "raise") =>
              /\ \A d \in Dirs : dirs'[d] # "missing"
              /\ last'.directories]_vars

\* C7 (amended): as claimed, except that the first run from an empty base path
\* reports true when every creation succeeds and yields a writable directory.
C7_DirectoryCheck ==
    [][/\ DirCheckIff
       /\ DirCheckContinues
       /\ DirCheckIdempotent
       /\ (/\ DiagStep
           /\ dirs = AllMissing
           /\ \A d \in Dirs : last'.mk[d] = "writable") =>
              /\ dirs' = AllWritable
              /\ last'.directories]_vars

\* The first directory could not be created; the second one was created all
\* the same, and the check failed.
C7_Witness ==
    /\ last.op = "diag"
    /\ required_dirs[1] \in last.mkdir_calls \ last.created
    /\ required_dirs[2] \in last.created
    /\ dirs[required_dirs[2]] = "writable"
    /\ ~last.directories

\* C8: a dependency check that returns reports true only when no required
\* package was missing at its start; it attempts one installation for each
\* missing package, also after another one's installer exited non-zero, logs
\* one failure per failed installation, and reports false when one failed.
C8_DependencyCheck ==
    (last.probe /\ "dependencies" \in last.reached) =>
        /\ last.dependencies => DOMAIN last.inst = {}
        /\ \A p \in Pkgs :
              Count(last.attempts, p) = (IF p \in DOMAIN last.inst THEN 1 ELSE 0)
        /\ \A p \in Pkgs :
              Count(last.failures, p) =
                 (IF p \in DOMAIN last.inst /\ last.inst[p] = "nonzero" THEN 1 ELSE 0)
        /\ (\E p \in DOMAIN last.inst : last.inst[p] = "nonzero")
              => ~last.dependencies
        /\ ~last.raised => last.returned["dependencies"] = last.dependencies

\* Two packages were missing: the first one's installation failed, the second
\* one was installed after it.
C8_Witness ==
    /\ last.probe
    /\ "dependencies" \in last.reached
    /\ Len(last.attempts) = 2
    /\ last.inst[last.attempts[1]] = "nonzero"
    /\ last.inst[last.attempts[2]] = "ok"
    /\ last.failures = <<last.attempts[1]>>
    /\ last.attempts[2] \in importable
    /\ ~last.dependencies

\* C9: the disk-space check returns true iff the free-space query succeeds
\* and reports at least 500 * 1024 * 1024 bytes; a failing query gives false
\* and no exception.
C9_DiskThreshold ==
    last.probe =>
        /\ "disk_space" \in last.reached
        /\ ~last.raised
        /\ last.disk = (~disk.raises /\ disk.free >= 500 * 1024 * 1024)
        /\ last.returned["disk_space"] = last.disk

\* Exactly 500 MB free: the check passes.
C9_Witness ==
    /\ last.op = "diag"
    /\ ~disk.raises
    /\ disk.free = 500 * 1024 * 1024
    /\ last.disk
    /\ last.returned["disk_space"]

\* C10: the stored report changes only when the probe runs and returns, and
\* then to the full report it returned. perform_self_healing runs the probe
\* iff the stored report is empty at entry; with a non-empty report it leaves
\* the report as it is, so a category it fixed still reads false, and a
\* perform_self_healing right after it attempts the same categories again.
C10_ReportFrame ==
    [][/\ health_check_results' # health_check_results =>
              /\ last'.probe
              /\ ~last'.raised
              /\ health_check_results' = last'.returned
              /\ IsFullReport(health_check_results')
       /\ last'.op = "heal" => (last'.probe <=> DOMAIN health_check_results = {})
       /\ (last'.op = "heal" /\ DOMAIN health_check_results # {}) =>
              /\ health_check_results' = health_check_results
              /\ \A c \in Range(last'.fixed_issues) : ~health_check_results'[c]
       /\ (last.op = "heal" /\ ~last.raised /\ last'.op = "heal") =>
              last'.attempted = last.attempted]_vars

\* perform_self_healing on a stored report ran the directory fixer although
\* nothing was left to fix, and the report still says directories = false.
C10_Witness ==
    /\ last.op = "heal"
    /\ ~last.probe
    /\ "directories" \in last.attempted
    /\ last.dirs_fixed
    /\ last.fix_created = {}
    /\ last.fix_perm = {}
    /\ ~health_check_results["directories"]

====
